---- MODULE Spec2Model ----
(***************************************************************************)
(* Model of spikeinterface/sortingcomponents/features_from_peaks.py:       *)
(* the parameter resolution of compute_features_from_peaks, the per-chunk  *)
(* worker _compute_features_from_peaks_chunk, the feature engine           *)
(* compute_features and the concatenation of the per-chunk tensors.        *)
(*                                                                         *)
(* Python dicts are functions whose DOMAIN is the set of keys; Python      *)
(* lists and numpy axes are sequences (position p holds index p-1).        *)
(***************************************************************************)
EXTENDS Integers, Sequences, FiniteSets, TLC

VARIABLES
    one_feature_per_peak_params,      \* module-level default table (line 8)
    n_chans_features_per_peak_params, \* module-level default table (line 15)
    recording,                        \* the recording handed to every call
    peaks,                            \* the peak list handed to every call
    chunks,                           \* the executor's chunk list <<segment, start, end>>
    pc,                               \* "idle" | "running" | "done" | "error"
    call,                             \* arguments of the call in progress
    my_params,                        \* the resolved configuration of the call
    margin,                           \* the streaming margin of the call
    results,                          \* chunk index -> what the worker returned
    output,                           \* the concatenated tensor
    error,                            \* the exception the call raised: [stage, kind]
    ncalls                            \* calls that have returned

vars == <<one_feature_per_peak_params, n_chans_features_per_peak_params,
          recording, peaks, chunks, pc, call, my_params, margin, results,
          output, error, ncalls>>

----------------------------------------------------------------------------
(* Bounds of the model *)

MaxFeatures == 2
MaxCalls == 2
MaxPeaks == 2
NumSamples == 3

----------------------------------------------------------------------------
(* Python values *)

None == -1

Min2(a, b) == IF a <= b THEN a ELSE b
Max2(a, b) == IF a >= b THEN a ELSE b

SetMax(S) == CHOOSE x \in S : \A y \in S : y <= x
SetMin(S) == CHOOSE x \in S : \A y \in S : x <= y

RECURSIVE SeqSum(_)
SeqSum(s) == IF s = <<>> THEN 0 ELSE Head(s) + SeqSum(Tail(s))

\* dict.update(other): keys of other overwrite or extend d
DictUpdate(d, other) ==
    [k \in (DOMAIN d) \cup (DOMAIN other) |->
        IF k \in DOMAIN other THEN other[k] ELSE d[k]]

\* list.index(x): 0-based position of the first occurrence
ListIndex(list, x) ==
    (CHOOSE i \in 1..Len(list) :
        list[i] = x /\ \A j \in 1..(i - 1) : list[j] # x) - 1

\* int(ms * sampling_frequency / 1000.0) for ms >= 0: truncation
MsToSamples(ms, fs) == (ms * fs) \div 1000

----------------------------------------------------------------------------
(* Module-level default tables, lines 8-16 *)

DefaultOneFeaturePerPeakParams ==
    [f \in {"amplitude", "ptp", "com", "dist_com_vs_max_ptp_channel", "energy"} |->
        CASE f = "amplitude" ->
                 [peak_sign |-> "neg", ms_before |-> None, ms_after |-> None]
          [] f = "ptp" ->
                 [ms_before |-> None, ms_after |-> None]
          [] OTHER ->
                 [local_radius_um |-> 50, ms_before |-> None, ms_after |-> None]]

DefaultNChansFeaturesPerPeakParams ==
    [f \in {"amplitude", "ptp"} |->
        CASE f = "amplitude" ->
                 [peak_sign |-> "neg", ms_before |-> None, ms_after |-> None]
          [] OTHER ->
                 [ms_before |-> None, ms_after |-> None]]

----------------------------------------------------------------------------
(* The recording: sampling frequency, channel geometry, samples *)

\* recording.get_channel_locations(): one row per channel, one column per axis
ChannelLocations(rec) ==
    [c \in 1..rec.num_chans |->
        [a \in 1..rec.ndim |-> IF a = 1 THEN (c - 1) * rec.pitch ELSE 0]]

\* numpy .shape of a 2-d array
Shape(m) == <<Len(m), Len(m[1])>>

\* get_channel_distances(recording): Euclidean distance, kept squared
ChannelDistancesSq(rec) ==
    LET locs == ChannelLocations(rec)
    IN  [i \in 1..rec.num_chans |->
            [j \in 1..rec.num_chans |->
                SeqSum([a \in 1..rec.ndim |->
                    (locs[i][a] - locs[j][a]) * (locs[i][a] - locs[j][a])])]]

\* the sample of channel c (0-based) at frame s (0-based) of segment seg:
\* distinct non-zero values, so that a window identifies the frames it read
TraceAt(seg, s, c) == 100 * (seg + 1) + 10 * s + c + 1

----------------------------------------------------------------------------
(* compute_features_from_peaks: parameter resolution, lines 67-132 *)

\* lines 67-70: the condition tests the table itself (a non-empty dict is
\* true), not the one_feature_per_peak argument
SelectTable(ofpp, ncfpp, one_feature_per_peak) ==
    IF DOMAIN ofpp # {} THEN ofpp ELSE ncfpp

\* lines 72-73: my_params[key].update(feature_params[key]) for every key, in
\* the dict's order; the inner dicts are those of the module-level table (the
\* copy of line 68 is shallow). A key the table lacks raises KeyError.
RECURSIVE ApplyOverrides(_, _, _)
ApplyOverrides(P, feature_params, i) ==
    IF i > Len(feature_params) THEN [P |-> P, error |-> "none"]
    ELSE LET key == feature_params[i][1]
             val == feature_params[i][2]
         IN  IF key \notin DOMAIN P THEN [P |-> P, error |-> "KeyError"]
             ELSE ApplyOverrides([P EXCEPT ![key] = DictUpdate(P[key], val)],
                                 feature_params, i + 1)

\* lines 75-81: the two assertions, feature by feature
HasComMutant(feature_list, i, has_com) ==
    \E j \in 1..Len(feature_list) : feature_list[j] = "com"
HasCom(feature_list, i, has_com) ==
    has_com \/ feature_list[i] = "com"

RECURSIVE ValidateFeatureList(_, _, _, _)
ValidateFeatureList(feature_list, keys, i, has_com) ==
    IF i > Len(feature_list) THEN "none"
    ELSE IF feature_list[i] \notin keys THEN "AssertionError: feature is not known"
    ELSE LET has_com2 == HasCom(feature_list, i, has_com)
         IN  IF feature_list[i] \in {"dist_com_vs_max_ptp_channel"} /\ ~has_com2
             THEN "AssertionError: CoM to be computed first"
             ELSE ValidateFeatureList(feature_list, keys, i + 1, has_com2)

\* lines 110-119: the mask has peaks.size rows; row main_chan is filled for
\* every channel, which raises IndexError when there are fewer rows than channels
SparsityMask(npeaks, rec, local_radius_um) ==
    LET d2 == ChannelDistancesSq(rec)
    IN  [r \in 1..npeaks |->
            [c \in 1..rec.num_chans |->
                r <= rec.num_chans /\ d2[r][c] <= local_radius_um * local_radius_um]]

\* lines 88-123, one feature per step. acc holds the locals of the function:
\* P (the inner dicts), top (the top-level keys added to my_params),
\* ms_before, ms_after, nbefore_max, nafter_max, error
RECURSIVE WindowLoop(_, _, _, _, _)
WindowLoop(acc, feature_list, i, rec, npeaks) ==
    IF i > Len(feature_list) \/ acc.error # "none" THEN acc
    ELSE
    LET feature == feature_list[i]
        d0 == acc.P[feature]
        ownB == d0.ms_before # None
        ms_before == IF ownB THEN d0.ms_before ELSE acc.ms_before
        nbefore == MsToSamples(ms_before, rec.fs)
        ownA == d0.ms_after # None
        ms_after == IF ownA THEN d0.ms_after ELSE acc.ms_after
        nafter == MsToSamples(ms_after, rec.fs)
        d1 == DictUpdate(d0, [nbefore |-> nbefore, nafter |-> nafter])
        top1 == IF ownB \/ ownA THEN [acc.top EXCEPT !.global_times = FALSE]
                ELSE acc.top
        has_radius == "local_radius_um" \in DOMAIN d1
        index_error == has_radius /\ npeaks < rec.num_chans
        d2 == IF has_radius /\ ~index_error
              THEN DictUpdate(d1, [sparsity_mask |->
                        SparsityMask(npeaks, rec, d1.local_radius_um)])
              ELSE d1
        top2 == IF has_radius /\ ~index_error
                THEN DictUpdate(top1, [chan_locs |-> ChannelLocations(rec)])
                ELSE top1
        top3 == IF feature = "com" /\ ~index_error
                THEN DictUpdate(top2,
                        [nb_com_dims |-> Len(Shape(ChannelLocations(rec)))])
                ELSE top2
    IN  WindowLoop([P |-> [acc.P EXCEPT ![feature] = d2],
                    top |-> top3,
                    ms_before |-> ms_before,
                    ms_after |-> ms_after,
                    nbefore_max |-> Max2(nbefore, acc.nbefore_max),
                    nafter_max |-> Max2(nafter, acc.nafter_max),
                    error |-> IF index_error THEN "IndexError" ELSE "none"],
                   feature_list, i + 1, rec, npeaks)

\* line 132
MarginMutant(nbefore_max, nafter_max) == Min2(nbefore_max, nafter_max)
Margin(nbefore_max, nafter_max) == Max2(nbefore_max, nafter_max)

\* lines 67-132 as a whole. P is the inner dicts as the call leaves them (in
\* the module-level table as well), my_params the dict handed to the workers.
ResolveParams(table, req, rec, npeaks) ==
    LET ov == ApplyOverrides(table, req.feature_params, 1)
        valid == IF ov.error # "none" THEN ov.error
                 ELSE ValidateFeatureList(req.feature_list, DOMAIN ov.P, 1, FALSE)
        acc == WindowLoop([P |-> ov.P,
                           top |-> [global_times |-> TRUE],
                           ms_before |-> req.ms_before,
                           ms_after |-> req.ms_after,
                           nbefore_max |-> 0,
                           nafter_max |-> 0,
                           error |-> "none"],
                          req.feature_list, 1, rec, npeaks)
    IN  IF valid # "none"
        THEN [P |-> ov.P, my_params |-> <<>>, margin |-> 0, error |-> valid]
        ELSE IF acc.error # "none"
        THEN [P |-> acc.P, my_params |-> <<>>, margin |-> 0, error |-> acc.error]
        ELSE [P |-> acc.P,
              my_params |->
                  DictUpdate(DictUpdate(acc.P, acc.top),
                             [nbefore |-> acc.nbefore_max,
                              nafter |-> acc.nafter_max,
                              smoothing |-> None,
                              one_feature_per_peak |-> req.one_feature_per_peak]),
              margin |-> Margin(acc.nbefore_max, acc.nafter_max),
              error |-> "none"]

----------------------------------------------------------------------------
(* _compute_features_from_peaks_chunk, lines 188-223 *)

\* get_chunk_with_margin(segment, start, end, None, margin, add_zeros=True):
\* the frames start-margin .. end+margin-1, zeros where the segment has no
\* frame; the margins it reports are the margin asked for
GetChunkWithMargin(rec, seg, start_frame, end_frame, m) ==
    [traces |->
        [k \in 1..(end_frame - start_frame + 2 * m) |->
            LET frame == start_frame - m + (k - 1)
            IN  [c \in 1..rec.num_chans |->
                    IF frame >= 0 /\ frame < rec.num_samples[seg + 1]
                    THEN TraceAt(seg, frame, c - 1) ELSE 0]],
     left_margin |-> m,
     right_margin |-> m]

\* np.searchsorted(a, v) on a sorted array: the number of elements below v
SearchSortedMutant(a, v) == Cardinality({i \in 1..Len(a) : a[i] <= v})
SearchSorted(a, v) == Cardinality({i \in 1..Len(a) : a[i] < v})

\* a[i0:i1] with 0 <= i0, i1 <= len(a)
Slice(a, i0, i1) == SubSeq(a, i0 + 1, i1)

\* lines 204-210: the positions in the peak list (1-based) of the local peaks
LocalPeakIds(pks, segment_index, start_frame, end_frame) ==
    LET seg_inds == [i \in 1..Len(pks) |-> pks[i].segment_ind]
        s0 == SearchSorted(seg_inds, segment_index)
        s1 == SearchSorted(seg_inds, segment_index + 1)
        peak_in_segment == Slice(pks, s0, s1)
        sample_inds == [i \in 1..Len(peak_in_segment) |->
                            peak_in_segment[i].sample_ind]
        i0 == SearchSorted(sample_inds, start_frame)
        i1 == SearchSorted(sample_inds, end_frame)
    IN  Slice([i \in 1..Len(peak_in_segment) |-> s0 + i], i0, i1)

\* lines 212-214: sample_ind made local to the loaded buffer
Rebase(sample_ind, start_frame, left_margin) ==
    sample_ind - (start_frame - left_margin)

LocalPeaks(pks, ids, start_frame, left_margin) ==
    [r \in 1..Len(ids) |->
        [pks[ids[r]] EXCEPT
            !.sample_ind = Rebase(pks[ids[r]].sample_ind, start_frame, left_margin)]]

----------------------------------------------------------------------------
(* compute_features: window extraction, lines 254-263 *)

\* sample_ind + np.arange(-nbefore, nafter)
WindowIndices(sample_ind, nbefore, nafter) ==
    [k \in 1..(nbefore + nafter) |-> sample_ind - nbefore + (k - 1)]

\* numpy integer indexing of an axis of length len: a negative index counts
\* from the end, an index outside -len .. len-1 raises IndexError
IndexInBounds(i, len) == i >= -len /\ i < len
NumpyIndex(i, len) == IF i < 0 THEN len + i ELSE i

\* traces[local_peak['sample_ind'][:, None] + np.arange(-nbefore, nafter), :]
\* wf[r][t][c]: peak r, window position t, channel c (all 1-based positions)
ExtractWaveforms(traces, local_peak, nbefore, nafter) ==
    LET idx == [r \in 1..Len(local_peak) |->
                    WindowIndices(local_peak[r].sample_ind, nbefore, nafter)]
        ok == \A r \in 1..Len(local_peak) : \A k \in 1..Len(idx[r]) :
                    IndexInBounds(idx[r][k], Len(traces))
    IN  [status |-> IF ok THEN "ok" ELSE "IndexError",
         indices |-> idx,
         wf |-> IF ok
                THEN [r \in 1..Len(local_peak) |->
                        [k \in 1..Len(idx[r]) |->
                            traces[NumpyIndex(idx[r][k], Len(traces)) + 1]]]
                ELSE <<>>]

----------------------------------------------------------------------------
(* compute_features: the value of each feature for one peak *)

Abs(x) == IF x < 0 THEN -x ELSE x

WfValues(w) == {w[t][c] : t \in 1..Len(w), c \in 1..Len(w[1])}
ChanValues(w, c) == {w[t][c] : t \in 1..Len(w)}

\* np.ptp(w, axis=time) of channel c
ChanPtp(w, c) == SetMax(ChanValues(w, c)) - SetMin(ChanValues(w, c))

\* lines 270-276
AmplitudeScalar(w, peak_sign) ==
    CASE peak_sign = "neg" -> SetMin(WfValues(w))
      [] peak_sign = "pos" -> SetMax(WfValues(w))
      [] OTHER -> SetMax({Abs(x) : x \in WfValues(w)})

\* lines 280-283
AmplitudePerChannel(w, peak_sign) ==
    [c \in 1..Len(w[1]) |->
        IF peak_sign = "neg" THEN SetMin(ChanValues(w, c))
        ELSE SetMax(ChanValues(w, c))]

\* lines 287-288
PtpScalar(w) == SetMax({ChanPtp(w, c) : c \in 1..Len(w[1])})

\* line 290
PtpPerChannel(w) == [c \in 1..Len(w[1]) |-> ChanPtp(w, c)]

\* np.nonzero(mask_row): the channels (1-based positions) in ascending order
RECURSIVE NonZero(_, _)
NonZero(mask_row, c) ==
    IF c > Len(mask_row) THEN <<>>
    ELSE (IF mask_row[c] THEN <<c>> ELSE <<>>) \o NonZero(mask_row, c + 1)

\* lines 300-301: norm(wf * mask_row) / sqrt(nb_channels), kept as the sum of
\* squares under the root and the channel count
Energy(w, mask_row) ==
    [kind |-> "energy",
     sumsq |-> SeqSum([t \in 1..Len(w) |->
                  SeqSum([c \in 1..Len(mask_row) |->
                      IF mask_row[c] THEN w[t][c] * w[t][c] ELSE 0])]),
     nb_channels |-> Len(NonZero(mask_row, 1))]

\* lines 311-315: dot(wf_ptp, locations) / sum(wf_ptp), one cell per axis of
\* the locations, kept as numerator and denominator
CenterOfMass(w, mask_row, chan_locs) ==
    LET chan_inds == NonZero(mask_row, 1)
        wf_ptp == [j \in 1..Len(chan_inds) |-> ChanPtp(w, chan_inds[j])]
    IN  [a \in 1..Len(chan_locs[1]) |->
            [kind |-> "com",
             num |-> SeqSum([j \in 1..Len(chan_inds) |->
                         wf_ptp[j] * chan_locs[chan_inds[j]][a]]),
             den |-> SeqSum(wf_ptp)]]

\* lines 325-331: the location of the neighbour of maximal ptp (np.argmax:
\* the first maximum) and the centre-of-mass cells read from the tensor
DistComVsMaxPtpChannel(w, mask_row, chan_locs, coms) ==
    LET chan_inds == NonZero(mask_row, 1)
        wf_ptp == [j \in 1..Len(chan_inds) |-> ChanPtp(w, chan_inds[j])]
        top == SetMax({wf_ptp[j] : j \in 1..Len(chan_inds)})
        argmax == CHOOSE j \in 1..Len(chan_inds) :
                      wf_ptp[j] = top /\ \A i \in 1..(j - 1) : wf_ptp[i] # top
    IN  [kind |-> "dist", loc |-> chan_locs[chan_inds[argmax]], coms |-> coms]

----------------------------------------------------------------------------
(* compute_features, lines 226-346 *)

Zero == [kind |-> "zero"]
Number(kind, v) == [kind |-> kind, v |-> v]

InList(list, x) == \E i \in 1..Len(list) : list[i] = x

\* lines 231-243
FeatureSize(feature_list, fp) ==
    IF fp.one_feature_per_peak /\ InList(feature_list, "com")
    THEN Len(feature_list) + (fp.nb_com_dims - 1)
    ELSE Len(feature_list)

\* com_start is bound only by line 234
ComStartBound(feature_list, fp) ==
    fp.one_feature_per_peak /\ InList(feature_list, "com")

ComStart(feature_list) == ListIndex(feature_list, "com")

\* lines 238-247: np.zeros((n, size)) or np.zeros((n, num_chans, size))
ZerosTensor(n, num_chans, size, one_feature_per_peak) ==
    IF one_feature_per_peak
    THEN [r \in 1..n |-> [f \in 1..size |-> Zero]]
    ELSE [r \in 1..n |-> [c \in 1..num_chans |-> [f \in 1..size |-> Zero]]]

\* tensor[r, com_start : com_start + nb_com_dims] (a slice is clipped)
ReadComs(row, com_start, nb_com_dims) ==
    Slice(row, Min2(com_start, Len(row)), Min2(com_start + nb_com_dims, Len(row)))

\* the number of columns the slice com_start : com_start + nb_com_dims holds
ComsWidth(com_start, nb_com_dims, size) ==
    Min2(com_start + nb_com_dims, size) - Min2(com_start, size)

\* lines 265-331: the array `features` of one feature. ndim is 1 for shape
\* (n,) and 2 for shape (n, width); status is the exception raised, if any
ComputeOneFeature(feature, wf, width, local_peak, num_chans, feature_list, fp, tensor) ==
    LET n == Len(local_peak)
        scalar == fp.one_feature_per_peak
        MaskRow(r) == fp[feature].sparsity_mask[local_peak[r].channel_ind + 1]
        Ok(ndim, w, data) == [status |-> "ok", ndim |-> ndim, width |-> w, data |-> data]
        Raise(e) == [status |-> e, ndim |-> 0, width |-> 0, data |-> <<>>]
    IN
    CASE feature = "amplitude" ->
            IF width = 0
            THEN Ok(1, 0, [r \in 1..n |-> Number("amplitude", local_peak[r].amplitude)])
            ELSE IF scalar
            THEN Ok(1, 0, [r \in 1..n |->
                    Number("amplitude", AmplitudeScalar(wf[r], fp[feature].peak_sign))])
            ELSE IF fp[feature].peak_sign = "both"
            THEN Raise("TypeError")
            ELSE Ok(2, num_chans, [r \in 1..n |->
                    [c \in 1..num_chans |->
                        Number("amplitude",
                               AmplitudePerChannel(wf[r], fp[feature].peak_sign)[c])]])
      [] feature = "ptp" ->
            IF width = 0 THEN Raise("ValueError")
            ELSE IF scalar
            THEN Ok(1, 0, [r \in 1..n |-> Number("ptp", PtpScalar(wf[r]))])
            ELSE Ok(2, num_chans, [r \in 1..n |->
                    [c \in 1..num_chans |-> Number("ptp", PtpPerChannel(wf[r])[c])]])
      [] feature = "energy" ->
            Ok(1, 0, [r \in 1..n |-> Energy(wf[r], MaskRow(r))])
      [] feature = "com" ->
            IF width = 0 \/ Len(fp.chan_locs[1]) # fp.nb_com_dims
            THEN Raise("ValueError")
            ELSE Ok(2, fp.nb_com_dims, [r \in 1..n |->
                    CenterOfMass(wf[r], MaskRow(r), fp.chan_locs)])
      [] OTHER ->
            IF width = 0 THEN Raise("ValueError")
            ELSE IF ~ComStartBound(feature_list, fp) THEN Raise("UnboundLocalError")
            ELSE IF ComsWidth(ComStart(feature_list), fp.nb_com_dims,
                              FeatureSize(feature_list, fp)) # Len(fp.chan_locs[1])
            THEN Raise("ValueError")
            ELSE Ok(1, 0, [r \in 1..n |->
                    DistComVsMaxPtpChannel(wf[r], MaskRow(r), fp.chan_locs,
                        ReadComs(tensor[r], ComStart(feature_list), fp.nb_com_dims))])

\* lines 334-344: the write of `features` into the tensor at feature_idx
\* (0-based), with numpy's broadcasting rules
WriteFeature(tensor, feature, features, feature_idx, size, num_chans, fp) ==
    LET n == Len(tensor)
        dims == fp.nb_com_dims
        Raise(e) == [status |-> e, tensor |-> tensor, feature_idx |-> feature_idx]
    IN
    IF fp.one_feature_per_peak
    THEN IF feature # "com"
         THEN IF feature_idx >= size THEN Raise("IndexError")
              ELSE [status |-> "ok",
                    tensor |-> [r \in 1..n |->
                                  [tensor[r] EXCEPT ![feature_idx + 1] = features.data[r]]],
                    feature_idx |-> feature_idx + 1]
         ELSE IF Min2(feature_idx + dims, size) - Min2(feature_idx, size) # features.width
              THEN Raise("ValueError")
              ELSE [status |-> "ok",
                    tensor |-> [r \in 1..n |->
                                  [f \in 1..size |->
                                      IF f > feature_idx /\ f <= feature_idx + dims
                                      THEN features.data[r][f - feature_idx]
                                      ELSE tensor[r][f]]],
                    feature_idx |-> feature_idx + dims]
    ELSE IF features.ndim = 1
         THEN IF n # num_chans /\ n # 1 THEN Raise("ValueError")
              ELSE [status |-> "ok",
                    tensor |-> [r \in 1..n |-> [c \in 1..num_chans |->
                                  [tensor[r][c] EXCEPT ![feature_idx + 1] =
                                      features.data[IF n = 1 THEN 1 ELSE c]]]],
                    feature_idx |-> feature_idx + 1]
         ELSE IF features.width # num_chans /\ features.width # 1
              THEN Raise("ValueError")
              ELSE [status |-> "ok",
                    tensor |-> [r \in 1..n |-> [c \in 1..num_chans |->
                                  [tensor[r][c] EXCEPT ![feature_idx + 1] =
                                      features.data[r][IF features.width = 1 THEN 1 ELSE c]]]],
                    feature_idx |-> feature_idx + 1]

\* lines 254-344, one feature per step. acc: tensor, feature_idx, wf_is_none,
\* status, and what each step read and wrote (indices, windows, columns,
\* dist_reads), kept for the properties
RECURSIVE FeatureLoop(_, _, _, _, _, _)
FeatureLoop(acc, i, traces, local_peak, feature_list, fp) ==
    IF i > Len(feature_list) \/ acc.status # "ok" THEN acc
    ELSE
    LET feature == feature_list[i]
        num_chans == Len(traces[1])
        size == FeatureSize(feature_list, fp)
        shared == fp.global_times /\ acc.wf_is_none
        nbefore == IF shared THEN fp.nbefore ELSE fp[feature].nbefore
        nafter == IF shared THEN fp.nafter ELSE fp[feature].nafter
        ex == ExtractWaveforms(traces, local_peak, nbefore, nafter)
        feats == IF ex.status = "ok"
                 THEN ComputeOneFeature(feature, ex.wf, nbefore + nafter, local_peak,
                                        num_chans, feature_list, fp, acc.tensor)
                 ELSE [status |-> ex.status, ndim |-> 0, width |-> 0, data |-> <<>>]
        wr == IF feats.status = "ok"
              THEN WriteFeature(acc.tensor, feature, feats, acc.feature_idx, size,
                                num_chans, fp)
              ELSE [status |-> feats.status, tensor |-> acc.tensor,
                    feature_idx |-> acc.feature_idx]
        is_dist == feature = "dist_com_vs_max_ptp_channel" /\ ex.status = "ok"
                   /\ nbefore + nafter > 0
    IN  FeatureLoop([tensor |-> wr.tensor,
                     feature_idx |-> wr.feature_idx,
                     wf_is_none |-> FALSE,
                     status |-> wr.status,
                     indices |-> Append(acc.indices, ex.indices),
                     windows |-> Append(acc.windows, ex.wf),
                     columns |-> Append(acc.columns,
                                    <<acc.feature_idx, wr.feature_idx>>),
                     dist_reads |-> acc.dist_reads \o
                        (IF ~is_dist THEN <<>>
                         ELSE IF ~ComStartBound(feature_list, fp)
                         THEN << [bound |-> FALSE, cells |-> <<>>] >>
                         ELSE << [bound |-> TRUE,
                                  cells |-> [r \in 1..Len(local_peak) |->
                                      ReadComs(acc.tensor[r], ComStart(feature_list),
                                               fp.nb_com_dims)]] >>)],
                    i + 1, traces, local_peak, feature_list, fp)

ComputeFeatures(traces, local_peak, feature_list, fp) ==
    FeatureLoop([tensor |-> ZerosTensor(Len(local_peak), Len(traces[1]),
                                        FeatureSize(feature_list, fp),
                                        fp.one_feature_per_peak),
                 feature_idx |-> 0,
                 wf_is_none |-> TRUE,
                 status |-> "ok",
                 indices |-> <<>>,
                 windows |-> <<>>,
                 columns |-> <<>>,
                 dist_reads |-> <<>>],
                1, traces, local_peak, feature_list, fp)

\* lines 188-223: what the worker returns for chunk <<segment, start, end>>
ComputeFeaturesFromPeaksChunk(chunk, rec, pks, m, feature_list, fp) ==
    LET loaded == GetChunkWithMargin(rec, chunk[1], chunk[2], chunk[3], m)
        ids == LocalPeakIds(pks, chunk[1], chunk[2], chunk[3])
        local_peaks == LocalPeaks(pks, ids, chunk[2], loaded.left_margin)
        res == ComputeFeatures(loaded.traces, local_peaks, feature_list, fp)
    IN  [status |-> res.status,
         tensor |-> res.tensor,
         size |-> FeatureSize(feature_list, fp),
         peak_ids |-> ids,
         buffer_len |-> Len(loaded.traces),
         indices |-> res.indices,
         windows |-> res.windows,
         columns |-> res.columns,
         dist_reads |-> res.dist_reads]

----------------------------------------------------------------------------
(* Inputs: recordings, peak lists, chunkings and requests *)

\* num_samples: the number of frames of each segment
Recording(num_samples, num_chans, ndim, pitch) ==
    [fs |-> 1500, num_samples |-> num_samples,
     num_chans |-> num_chans, ndim |-> ndim, pitch |-> pitch]

Peak(seg, sample, chan) ==
    [segment_ind |-> seg, sample_ind |-> sample, channel_ind |-> chan,
     amplitude |-> TraceAt(seg, sample, chan)]

\* peaks as detect_peaks returns them: sorted by (segment_ind, sample_ind)
IsSorted(pks) ==
    \A i \in 1..(Len(pks) - 1) :
        \/ pks[i].segment_ind < pks[i + 1].segment_ind
        \/ /\ pks[i].segment_ind = pks[i + 1].segment_ind
           /\ pks[i].sample_ind <= pks[i + 1].sample_ind

\* every sorted list of the recording's peaks whose length is in lens; a
\* peak sits on the channel its frame selects
PeakLists(rec, lens) ==
    LET all == UNION {{Peak(seg, s, s % rec.num_chans) :
                          s \in 0..(rec.num_samples[seg + 1] - 1)} :
                      seg \in 0..(Len(rec.num_samples) - 1)}
    IN  {pks \in UNION {[1..n -> all] : n \in lens} : IsSorted(pks)}

SortedSeq(S) ==
    CHOOSE q \in [1..Cardinality(S) -> S] : \A i, j \in 1..Cardinality(S) :
        i < j => q[i] < q[j]

\* the executor's chunks: every segment cut at the frames of cuts, in
\* ascending (segment, start) order
RECURSIVE ChunkListFrom(_, _, _)
ChunkListFrom(rec, cuts, seg) ==
    IF seg >= Len(rec.num_samples) THEN <<>>
    ELSE LET len == rec.num_samples[seg + 1]
             b == SortedSeq({0, len} \cup {c \in cuts : c < len})
         IN  [k \in 1..(Len(b) - 1) |-> <<seg, b[k], b[k + 1]>>]
                 \o ChunkListFrom(rec, cuts, seg + 1)

ChunkList(rec, cuts) == ChunkListFrom(rec, cuts, 0)

CutSets == SUBSET (1..(NumSamples - 1))

FeatureLists(names, maxlen) == UNION {[1..n -> names] : n \in 1..maxlen}

Request(feature_list, feature_params, ms_before, ms_after, one_feature_per_peak) ==
    [feature_list |-> feature_list, feature_params |-> feature_params,
     ms_before |-> ms_before, ms_after |-> ms_after,
     one_feature_per_peak |-> one_feature_per_peak]

----------------------------------------------------------------------------
(* The state machine *)

NoCall == <<>>

NoError == [stage |-> "none", kind |-> "none"]

InitWith(recs, lens, cutsets, returned) ==
    /\ one_feature_per_peak_params = DefaultOneFeaturePerPeakParams
    /\ n_chans_features_per_peak_params = DefaultNChansFeaturesPerPeakParams
    /\ recording \in recs
    /\ peaks \in PeakLists(recording, lens)
    /\ chunks \in {ChunkList(recording, cuts) : cuts \in cutsets}
    /\ pc = "idle"
    /\ call = NoCall
    /\ my_params = <<>>
    /\ margin = 0
    /\ results = <<>>
    /\ output = <<>>
    /\ error = NoError
    /\ ncalls = returned

\* compute_features_from_peaks up to the start of the executor, lines 67-152.
\* The inner dicts the resolution writes are those of the selected table.
Call(req) ==
    /\ pc = "idle"
    /\ ncalls < MaxCalls
    /\ LET table == SelectTable(one_feature_per_peak_params,
                                n_chans_features_per_peak_params,
                                req.one_feature_per_peak)
           res == ResolveParams(table, req, recording, Len(peaks))
       IN  /\ IF DOMAIN one_feature_per_peak_params # {}
              THEN /\ one_feature_per_peak_params' = res.P
                   /\ UNCHANGED n_chans_features_per_peak_params
              ELSE /\ n_chans_features_per_peak_params' = res.P
                   /\ UNCHANGED one_feature_per_peak_params
           /\ call' = req
           /\ my_params' = res.my_params
           /\ margin' = res.margin
           /\ error' = IF res.error = "none" THEN NoError
                        ELSE [stage |-> "resolution", kind |-> res.error]
           /\ pc' = IF res.error = "none" THEN "running" ELSE "error"
    /\ results' = <<>>
    /\ output' = <<>>
    /\ UNCHANGED <<recording, peaks, chunks, ncalls>>

Pending == {c \in 1..Len(chunks) : c \notin DOMAIN results}

Failed == {c \in DOMAIN results : results[c].status # "ok"}

\* a worker runs _compute_features_from_peaks_chunk on a chunk not yet done;
\* chunks may finish in any order
RunChunk(c) ==
    /\ pc = "running"
    /\ c \in Pending
    /\ Failed = {}
    /\ results' = [k \in (DOMAIN results) \cup {c} |->
                      IF k = c
                      THEN ComputeFeaturesFromPeaksChunk(chunks[c], recording, peaks,
                               margin, call.feature_list, my_params)
                      ELSE results[k]]
    /\ UNCHANGED <<one_feature_per_peak_params, n_chans_features_per_peak_params,
                   recording, peaks, chunks, pc, call, my_params, margin, output,
                   error, ncalls>>

\* np.concatenate(list of per-chunk tensors), in the order of the list
RECURSIVE ConcatenateFrom(_, _, _)
ConcatenateFrom(res, field, c) ==
    IF c > Len(res) THEN <<>>
    ELSE res[c][field] \o ConcatenateFrom(res, field, c + 1)

\* lines 153-156: processor.run() returns the tensors in chunk order
Concatenate ==
    /\ pc = "running"
    /\ Pending = {}
    /\ Failed = {}
    /\ output' = ConcatenateFrom(results, "tensor", 1)
    /\ pc' = "done"
    /\ UNCHANGED <<one_feature_per_peak_params, n_chans_features_per_peak_params,
                   recording, peaks, chunks, call, my_params, margin, results,
                   error, ncalls>>

\* an exception in a worker ends the run
Abort ==
    /\ pc = "running"
    /\ Failed # {}
    /\ error' = [stage |-> "chunk",
                  kind |-> CHOOSE e \in {results[c].status : c \in Failed} : TRUE]
    /\ pc' = "error"
    /\ UNCHANGED <<one_feature_per_peak_params, n_chans_features_per_peak_params,
                   recording, peaks, chunks, call, my_params, margin, results,
                   output, ncalls>>

\* the call returns or raises: its locals are gone, the module tables stay
Return ==
    /\ pc \in {"done", "error"}
    /\ pc' = "idle"
    /\ call' = NoCall
    /\ my_params' = <<>>
    /\ margin' = 0
    /\ results' = <<>>
    /\ output' = <<>>
    /\ error' = NoError
    /\ ncalls' = ncalls + 1
    /\ UNCHANGED <<one_feature_per_peak_params, n_chans_features_per_peak_params,
                   recording, peaks, chunks>>

FeatureNames ==
    {"amplitude", "ptp", "energy", "com", "dist_com_vs_max_ptp_channel", "snr"}

\* the feature_params of a request: a list of <<key, overrides>> in dict order
FeatureParamsChoices ==
    { <<>>,
      << <<"amplitude", [ms_before |-> 2]>> >>,
      << <<"com", [ms_after |-> 2]>> >>,
      << <<"snr", [ms_before |-> 2]>> >> }

Requests ==
    {Request(fl, fpar, 1, 1, mode) :
        fl \in FeatureLists(FeatureNames, MaxFeatures),
        fpar \in FeatureParamsChoices,
        mode \in BOOLEAN}

Recordings ==
    {Recording(<<NumSamples>>, 2, 2, 50), Recording(<<NumSamples>>, 2, 3, 50)}

Init == InitWith(Recordings, 1..MaxPeaks, {{NumSamples - 1}}, 0)

Next ==
    \/ \E req \in Requests : Call(req)
    \/ \E c \in 1..Len(chunks) : RunChunk(c)
    \/ Concatenate
    \/ Abort
    \/ Return

Spec == Init /\ [][Next]_vars

----------------------------------------------------------------------------
(* The last call of a process, over every peak list and every chunking *)

RequestsChunks ==
    { Request(<<"amplitude", "ptp">>, <<>>, 1, 2, TRUE),
      Request(<<"ptp", "amplitude">>, << <<"amplitude", [ms_before |-> 2]>> >>, 1, 1, TRUE),
      Request(<<"com", "dist_com_vs_max_ptp_channel">>, <<>>, 2, 1, TRUE),
      Request(<<"amplitude", "energy">>, <<>>, 1, 1, FALSE) }

InitChunks ==
    InitWith({Recording(<<NumSamples, 2>>, 2, 2, 50)}, 0..MaxPeaks, CutSets,
             MaxCalls - 1)

NextChunks ==
    \/ \E req \in RequestsChunks : Call(req)
    \/ \E c \in 1..Len(chunks) : RunChunk(c)
    \/ Concatenate
    \/ Abort
    \/ Return

SpecChunks == InitChunks /\ [][NextChunks]_vars

----------------------------------------------------------------------------
(* One call over every feature list: the checks of the resolution *)

RequestsChecks ==
    {Request(fl, fpar, 1, 1, mode) :
        fl \in FeatureLists(FeatureNames, MaxFeatures),
        fpar \in { <<>>, << <<"snr", [ms_before |-> 2]>> >> },
        mode \in BOOLEAN}

InitChecks ==
    InitWith({Recording(<<NumSamples>>, 2, 2, 50)}, {2}, {{}}, MaxCalls - 1)

NextChecks ==
    \/ \E req \in RequestsChecks : Call(req)
    \/ \E c \in 1..Len(chunks) : RunChunk(c)
    \/ Concatenate
    \/ Abort
    \/ Return

SpecChecks == InitChecks /\ [][NextChecks]_vars

----------------------------------------------------------------------------
(* Properties *)

Range(q) == {q[i] : i \in 1..Len(q)}

\* the resolution of the call in progress succeeded
Resolved == pc \in {"running", "done"} \/ (pc = "error" /\ error.stage = "chunk")

RaisedInResolution(kind) ==
    pc = "error" /\ error.stage = "resolution" /\ error.kind = kind

MissingDependency == "AssertionError: CoM to be computed first"
UnknownFeature == "AssertionError: feature is not known"

\* C1: with the peaks sorted by (segment, sample) and the segments cut into
\* contiguous chunks, no peak is selected by two chunks, every peak is selected
\* by one chunk once all chunks are done, every tensor has one row per selected
\* peak, and the concatenation in chunk order lists the peaks 1..N in input
\* order, so that the output has N rows and row k belongs to peak k.
C1_EveryPeakOnceInOrder ==
    /\ \A c \in DOMAIN results :
          /\ results[c].status = "ok" =>
                Len(results[c].tensor) = Len(results[c].peak_ids)
          /\ \A i, j \in 1..Len(results[c].peak_ids) :
                i < j => results[c].peak_ids[i] < results[c].peak_ids[j]
          /\ \A d \in DOMAIN results :
                c # d => Range(results[c].peak_ids) \cap Range(results[d].peak_ids) = {}
    /\ (pc \in {"running", "done"} /\ Pending = {}) =>
          \A k \in 1..Len(peaks) :
              Cardinality({c \in DOMAIN results : k \in Range(results[c].peak_ids)}) = 1
    /\ pc = "done" =>
          /\ ConcatenateFrom(results, "peak_ids", 1) = [k \in 1..Len(peaks) |-> k]
          /\ Len(output) = Len(peaks)

\* C1 witness: a finished run over at least three chunks in which two chunks
\* hold peaks and a peak sits on the first frame of a chunk that is not the
\* first of its segment.
C1_Witness ==
    /\ pc = "done"
    /\ Len(chunks) >= 3
    /\ Len(peaks) >= 2
    /\ \E c, d \in DOMAIN results :
          c # d /\ results[c].peak_ids # <<>> /\ results[d].peak_ids # <<>>
    /\ \E c \in DOMAIN results : \E k \in Range(results[c].peak_ids) :
          chunks[c][2] > 0 /\ peaks[k].sample_ind = chunks[c][2]

\* what the worker returns for a whole segment: the run with one chunk
UnchunkedResult(seg) ==
    ComputeFeaturesFromPeaksChunk(<<seg, 0, recording.num_samples[seg + 1]>>,
        recording, peaks, margin, call.feature_list, my_params)

RECURSIVE UnchunkedOutput(_)
UnchunkedOutput(seg) ==
    IF seg >= Len(recording.num_samples) THEN <<>>
    ELSE UnchunkedResult(seg).tensor \o UnchunkedOutput(seg + 1)

\* the frames sample - nbefore .. sample + nafter - 1 of a segment, zeros past
\* its edges
RecordingWindow(seg, sample, nbefore, nafter) ==
    [k \in 1..(nbefore + nafter) |->
        LET frame == sample - nbefore + (k - 1)
        IN  [c \in 1..recording.num_chans |->
                IF frame >= 0 /\ frame < recording.num_samples[seg + 1]
                THEN TraceAt(seg, frame, c - 1) ELSE 0]]

\* the window the i-th feature of the list works on
NBeforeOf(i) ==
    IF my_params.global_times /\ i = 1 THEN my_params.nbefore
    ELSE my_params[call.feature_list[i]].nbefore
NAfterOf(i) ==
    IF my_params.global_times /\ i = 1 THEN my_params.nafter
    ELSE my_params[call.feature_list[i]].nafter

\* the window every feature reads for every peak of every chunk holds the
\* frames of the recording around the peak, zeros past the edges of the
\* segment: the windows of the run with one chunk
WindowsMatchRecording ==
    \A c \in DOMAIN results : \A i \in 1..Len(results[c].windows) :
        results[c].windows[i] # <<>> =>
            \A r \in 1..Len(results[c].peak_ids) :
                LET pk == peaks[results[c].peak_ids[r]]
                IN  results[c].windows[i][r] =
                        RecordingWindow(pk.segment_ind, pk.sample_ind,
                                        NBeforeOf(i), NAfterOf(i))

\* C2: the run over N chunks returns the tensor the run with one chunk per
\* segment returns, and every window read from a chunk buffer holds the frames
\* the unchunked run reads.
C2_ChunkedEqualsUnchunked ==
    /\ WindowsMatchRecording
    /\ pc = "done" =>
          /\ \A seg \in 0..(Len(recording.num_samples) - 1) :
                UnchunkedResult(seg).status = "ok"
          /\ output = UnchunkedOutput(0)

\* the requested features the mode's default table lacks
ModeTable(one_feature_per_peak) ==
    IF one_feature_per_peak THEN DefaultOneFeaturePerPeakParams
    ELSE DefaultNChansFeaturesPerPeakParams

Unsupported(req) ==
    \E i \in 1..Len(req.feature_list) :
        req.feature_list[i] \notin DOMAIN ModeTable(req.one_feature_per_peak)

\* every requested feature and every overridden feature is in the mode's table
Supported(req) ==
    /\ ~Unsupported(req)
    /\ \A k \in 1..Len(req.feature_params) :
          req.feature_params[k][1] \in DOMAIN ModeTable(req.one_feature_per_peak)

\* a dist_com_vs_max_ptp_channel entry that no com entry precedes
DistBeforeCom(req) ==
    \E i \in 1..Len(req.feature_list) :
        /\ req.feature_list[i] = "dist_com_vs_max_ptp_channel"
        /\ \A j \in 1..(i - 1) : req.feature_list[j] # "com"

\* C3 (as amended): for a request whose features are all supported by its
\* mode, the resolution raises the missing-dependency error exactly when the
\* list holds a dist_com_vs_max_ptp_channel that no com precedes, so a com later
\* in the list does not satisfy the check; the error is never raised without
\* such an entry, and when it is raised no chunk has been processed.
C3_DependencyNeedsComEarlier ==
    pc # "idle" =>
        /\ Supported(call) =>
              (RaisedInResolution(MissingDependency) <=> DistBeforeCom(call))
        /\ RaisedInResolution(MissingDependency) =>
              DistBeforeCom(call) /\ results = <<>> /\ output = <<>>

\* C3 witness: the error is raised for a supported request whose list holds com
\* after dist_com_vs_max_ptp_channel.
C3_Witness ==
    /\ RaisedInResolution(MissingDependency)
    /\ Supported(call)
    /\ InList(call.feature_list, "com")
    /\ results = <<>>

\* C3 (as claimed): for a request whose features are all supported by its
\* mode, the missing-dependency error is raised exactly when
\* dist_com_vs_max_ptp_channel is requested and com is nowhere in the list; com
\* at any position passes the check.
C3_Original ==
    (pc # "idle" /\ Supported(call)) =>
        (RaisedInResolution(MissingDependency) <=>
            /\ InList(call.feature_list, "dist_com_vs_max_ptp_channel")
            /\ ~InList(call.feature_list, "com"))

\* C4: a request naming a feature the mode's default table lacks raises the
\* unknown-feature error in the resolution, with no chunk processed, no tensor
\* allocated and the default tables unchanged.
C4_UnsupportedFeatureRejected ==
    (pc # "idle" /\ Unsupported(call)) =>
        /\ RaisedInResolution(UnknownFeature)
        /\ results = <<>>
        /\ output = <<>>
        /\ ncalls = 0 =>
              /\ one_feature_per_peak_params = DefaultOneFeaturePerPeakParams
              /\ n_chans_features_per_peak_params = DefaultNChansFeaturesPerPeakParams

\* the override the request gives a feature for a key, None when it gives none
OwnOverride(req, feature, key) ==
    IF \E k \in 1..Len(req.feature_params) :
            req.feature_params[k][1] = feature /\ key \in DOMAIN req.feature_params[k][2]
    THEN LET k == CHOOSE k \in 1..Len(req.feature_params) :
                    req.feature_params[k][1] = feature
         IN  req.feature_params[k][2][key]
    ELSE None

\* C5: every requested feature's window is the conversion of its own override
\* where the request gives one and of the global ms_before / ms_after
\* otherwise, and global_times is true iff no requested feature has an override.
C5_WindowFromOwnOverrideOrGlobal ==
    Resolved =>
        /\ \A i \in 1..Len(call.feature_list) :
              LET f == call.feature_list[i]
                  ownB == OwnOverride(call, f, "ms_before")
                  ownA == OwnOverride(call, f, "ms_after")
              IN  /\ my_params[f].nbefore =
                        MsToSamples(IF ownB # None THEN ownB ELSE call.ms_before,
                                    recording.fs)
                  /\ my_params[f].nafter =
                        MsToSamples(IF ownA # None THEN ownA ELSE call.ms_after,
                                    recording.fs)
        /\ my_params.global_times <=>
              \A i \in 1..Len(call.feature_list) :
                  /\ OwnOverride(call, call.feature_list[i], "ms_before") = None
                  /\ OwnOverride(call, call.feature_list[i], "ms_after") = None

\* the columns a feature takes: the number of coordinate axes for com in scalar
\* mode, one otherwise
WidthOf(feature) ==
    IF feature = "com" /\ call.one_feature_per_peak THEN recording.ndim ELSE 1

OffsetOf(i) == SeqSum([j \in 1..(i - 1) |-> WidthOf(call.feature_list[j])])

\* no feature is requested twice
EachFeatureOnce(req) ==
    \A i, j \in 1..Len(req.feature_list) :
        req.feature_list[i] = req.feature_list[j] => i = j

\* C6: for a list that names each feature once, the tensor has as many columns
\* as the widths of the features add up to (the number of coordinate axes for
\* com in scalar mode, one otherwise), and the i-th feature writes the columns
\* from the sum of the widths before it, all inside the tensor.
C6_ColumnsAreSumOfWidths ==
    \A c \in DOMAIN results : EachFeatureOnce(call) =>
        /\ results[c].size = OffsetOf(Len(call.feature_list) + 1)
        /\ \A i \in 1..Len(results[c].columns) :
              (i < Len(results[c].columns) \/ results[c].status = "ok") =>
                  /\ results[c].columns[i] =
                        <<OffsetOf(i), OffsetOf(i) + WidthOf(call.feature_list[i])>>
                  /\ results[c].columns[i][2] <= results[c].size

\* C7: the margin is the largest nbefore or nafter of the requested features,
\* and every index of every window of every peak of every chunk lies inside the
\* loaded buffer.
C7_MarginCoversEveryWindow ==
    /\ Resolved =>
          margin = SetMax(UNION {{my_params[call.feature_list[i]].nbefore,
                                  my_params[call.feature_list[i]].nafter} :
                                 i \in 1..Len(call.feature_list)})
    /\ \A c \in DOMAIN results : \A i \in 1..Len(results[c].indices) :
          \A r \in 1..Len(results[c].indices[i]) :
              \A k \in 1..Len(results[c].indices[i][r]) :
                  /\ results[c].indices[i][r][k] >= 0
                  /\ results[c].indices[i][r][k] < results[c].buffer_len

\* C7 witness: a chunk that starts and ends inside its segment, and a feature
\* whose nbefore is the margin and exceeds its nafter, with a window that begins
\* on the first frame of the loaded buffer.
C7_Witness ==
    \E c \in DOMAIN results :
        /\ chunks[c][2] > 0
        /\ chunks[c][3] < recording.num_samples[chunks[c][1] + 1]
        /\ \E i \in 1..Len(results[c].indices) :
              /\ NBeforeOf(i) = margin
              /\ NBeforeOf(i) > NAfterOf(i)
              /\ \E r \in 1..Len(results[c].indices[i]) :
                    0 \in Range(results[c].indices[i][r])

\* C8: whenever dist_com_vs_max_ptp_channel reads the centre-of-mass columns,
\* com_start is bound and every cell it reads was written by com.
C8_ComWrittenBeforeDistReads ==
    \A c \in DOMAIN results : \A d \in 1..Len(results[c].dist_reads) :
        /\ results[c].dist_reads[d].bound
        /\ \A r \in 1..Len(results[c].dist_reads[d].cells) :
              /\ Len(results[c].dist_reads[d].cells[r]) = recording.ndim
              /\ \A a \in 1..Len(results[c].dist_reads[d].cells[r]) :
                    results[c].dist_reads[d].cells[r][a].kind = "com"

\* the mask of the Sparsity Builder: channel x channel, true within the radius
ChannelMask(local_radius_um) ==
    LET d2 == ChannelDistancesSq(recording)
    IN  [i \in 1..recording.num_chans |->
            [j \in 1..recording.num_chans |->
                d2[i][j] <= local_radius_um * local_radius_um]]

\* C9: for a request whose features are all supported by its mode, the
\* resolution builds, for every requested feature with a radius, the channel x
\* channel mask of the channels within the radius, whatever the number of
\* peaks, and building it raises no error.
C9_MaskIsChannelByChannel ==
    (pc # "idle" /\ Supported(call)) =>
    /\ ~RaisedInResolution("IndexError")
    /\ Resolved =>
          \A i \in 1..Len(call.feature_list) :
              LET f == call.feature_list[i]
              IN  "local_radius_um" \in DOMAIN my_params[f] =>
                      my_params[f].sparsity_mask =
                          ChannelMask(my_params[f].local_radius_um)

\* the part of a resolved configuration a call works with
ConfigOf(cfg, feature_list) ==
    [global_times |-> cfg.global_times,
     nbefore |-> cfg.nbefore,
     nafter |-> cfg.nafter,
     features |-> [i \in 1..Len(feature_list) |->
        [k \in (DOMAIN cfg[feature_list[i]]) \ {"sparsity_mask"} |->
            cfg[feature_list[i]][k]]]]

\* every entry of the initial table is in the table with its initial value
HoldsInitialValues(table, initial) ==
    /\ DOMAIN table = DOMAIN initial
    /\ \A f \in DOMAIN initial : \A k \in DOMAIN initial[f] :
          k \in DOMAIN table[f] /\ table[f][k] = initial[f][k]

\* C10: between calls every entry of the default tables holds its initial
\* value, and the configuration a call resolves is the one its arguments give
\* from the initial tables.
C10_CallsAreIndependent ==
    /\ pc = "idle" =>
          /\ HoldsInitialValues(one_feature_per_peak_params,
                                DefaultOneFeaturePerPeakParams)
          /\ HoldsInitialValues(n_chans_features_per_peak_params,
                                DefaultNChansFeaturesPerPeakParams)
    /\ Resolved =>
          ConfigOf(my_params, call.feature_list) =
              ConfigOf(ResolveParams(SelectTable(DefaultOneFeaturePerPeakParams,
                                         DefaultNChansFeaturesPerPeakParams,
                                         call.one_feature_per_peak),
                                     call, recording, Len(peaks)).my_params,
                       call.feature_list)

====
